---------------------------- MODULE Spec2Model ----------------------------
(***************************************************************************)
(* A model of the travel_together web application (src/app.py): the field *)
(* validators, the request handlers register, create_group, edit_group,   *)
(* join_group, delete_group and the two real-time validation endpoints,   *)
(* over a relational store that enforces the constraints the models       *)
(* declare (unique username and email, foreign keys).                     *)
(*                                                                         *)
(* Text is a sequence of one-character strings, so that strip(), lower()  *)
(* and the regular expressions are computed and not assumed.  Messages    *)
(* are TLA+ strings.                                                       *)
(***************************************************************************)
EXTENDS Integers, Sequences, FiniteSets, Bags, TLC

(***************************************************************************)
(* Characters and the str methods the handlers use                         *)
(***************************************************************************)
LowerSeq == <<"a","b","c","d","e","f","g","h","i","j","k","l","m","n","o","p","q","r","s","t","u","v","w","x","y","z">>
UpperSeq == <<"A","B","C","D","E","F","G","H","I","J","K","L","M","N","O","P","Q","R","S","T","U","V","W","X","Y","Z">>
LowerCh == {LowerSeq[i] : i \in 1..26}
UpperCh == {UpperSeq[i] : i \in 1..26}
LetterCh == LowerCh \cup UpperCh
DigitCh == {"0","1","2","3","4","5","6","7","8","9"}
\* what str.strip() removes and the regular expressions' \s matches
SpaceCh == {" ", "\t", "\n", "\r", "\f"}

Cond(b, msg) == IF b THEN <<msg>> ELSE <<>>

Contains(errors, msg) == \E i \in 1..Len(errors) : errors[i] = msg

AllIn(s, C) == \A i \in 1..Len(s) : s[i] \in C

AnyIn(s, C) == \E i \in 1..Len(s) : s[i] \in C

IndexIn(c, seq) == CHOOSE i \in 1..Len(seq) : seq[i] = c

LowerChar(c) == IF c \in UpperCh THEN LowerSeq[IndexIn(c, UpperSeq)] ELSE c

UpperChar(c) == IF c \in LowerCh THEN UpperSeq[IndexIn(c, LowerSeq)] ELSE c

\* str.lower()
Lower(s) == [i \in 1..Len(s) |-> LowerChar(s[i])]

\* str.strip(): the text between the first and the last non-whitespace
\* character
Strip(s) ==
    LET keep == {i \in 1..Len(s) : s[i] \notin SpaceCh}
    IN  IF keep = {} THEN <<>>
        ELSE LET lo == CHOOSE i \in keep : \A j \in keep : i <= j
                 hi == CHOOSE i \in keep : \A j \in keep : j <= i
             IN  SubSeq(s, lo, hi)

\* str.title(): a letter that follows a non-letter is upper-cased, any other
\* letter lower-cased
Title(s) ==
    [i \in 1..Len(s) |->
        IF i = 1 \/ s[i - 1] \notin LetterCh THEN UpperChar(s[i])
        ELSE LowerChar(s[i])]

\* word in text
HasSub(text, word) ==
    \E i \in 1..(Len(text) - Len(word) + 1) :
        SubSeq(text, i, i + Len(word) - 1) = word

\* re.match("^[C]+$", s): one or more characters of C up to the end of the
\* text, where $ also matches just before one trailing newline
MatchAll(s, C) ==
    \/ Len(s) >= 1 /\ AllIn(s, C)
    \/ Len(s) >= 2 /\ s[Len(s)] = "\n" /\ AllIn(SubSeq(s, 1, Len(s) - 1), C)

(***************************************************************************)
(* The field validators                                                    *)
(***************************************************************************)
reserved_usernames ==
    { <<"a","d","m","i","n">>,
      <<"a","d","m","i","n","i","s","t","r","a","t","o","r">>,
      <<"r","o","o","t">>,
      <<"u","s","e","r">>,
      <<"t","e","s","t">>,
      <<"g","u","e","s","t">>,
      <<"a","p","i">>,
      <<"w","w","w">>,
      <<"m","a","i","l">>,
      <<"e","m","a","i","l">>,
      <<"s","u","p","p","o","r","t">>,
      <<"h","e","l","p">>,
      <<"i","n","f","o">>,
      <<"c","o","n","t","a","c","t">>,
      <<"a","b","o","u","t">>,
      <<"l","o","g","i","n">>,
      <<"r","e","g","i","s","t","e","r">>,
      <<"s","i","g","n","u","p">>,
      <<"s","i","g","n","i","n">>,
      <<"l","o","g","o","u","t">>,
      <<"d","a","s","h","b","o","a","r","d">>,
      <<"p","r","o","f","i","l","e">>,
      <<"s","e","t","t","i","n","g","s">>,
      <<"m","o","d","e","r","a","t","o","r">>,
      <<"m","o","d">>,
      <<"s","t","a","f","f">>,
      <<"o","f","f","i","c","i","a","l">>,
      <<"s","y","s","t","e","m">>,
      <<"n","u","l","l">>,
      <<"u","n","d","e","f","i","n","e","d">> }

UsernameCh == LetterCh \cup DigitCh \cup {"_"}

\* validate_username without the upper limit on the length
validate_username_no_upper_limit(username) ==
    IF username = <<>> THEN <<"Username is required">>
    ELSE
        Cond(Len(username) < 5, "Username must be at least 5 characters long")
        \o Cond(~MatchAll(username, UsernameCh),
                "Username can only contain letters, numbers, and underscores")
        \o Cond(username[1] \notin LetterCh, "Username must start with a letter")
        \o Cond(username[Len(username)] = "_", "Username cannot end with an underscore")
        \o Cond(HasSub(username, <<"_","_">>), "Username cannot have consecutive underscores")
        \o Cond(Lower(username) \in reserved_usernames,
                "This username is reserved and cannot be used")

validate_username(username) ==
    IF username = <<>> THEN <<"Username is required">>
    ELSE
        Cond(Len(username) < 5, "Username must be at least 5 characters long")
        \o Cond(Len(username) > 13, "Username must be no more than 13 characters long")
        \o Cond(~MatchAll(username, UsernameCh),
                "Username can only contain letters, numbers, and underscores")
        \o Cond(username[1] \notin LetterCh, "Username must start with a letter")
        \o Cond(username[Len(username)] = "_", "Username cannot end with an underscore")
        \o Cond(HasSub(username, <<"_","_">>), "Username cannot have consecutive underscores")
        \o Cond(Lower(username) \in reserved_usernames,
                "This username is reserved and cannot be used")

NameCh == LetterCh \cup SpaceCh \cup {"-", "'"}

NameEdgeCh == {" ", "-", "'"}

NameSpecialCh == SpaceCh \cup {"-", "'"}

validate_name(raw, field_name) ==
    IF Strip(raw) = <<>> THEN <<field_name \o " is required">>
    ELSE
        LET name == Strip(raw) IN
        Cond(Len(name) < 2, field_name \o " must be at least 2 characters long")
        \o Cond(Len(name) > 50, field_name \o " must be no more than 50 characters long")
        \o Cond(~MatchAll(name, NameCh),
                field_name \o " can only contain letters, spaces, hyphens, and apostrophes")
        \o Cond(name[1] \in NameEdgeCh \/ name[Len(name)] \in NameEdgeCh,
                field_name \o " cannot start or end with spaces, hyphens, or apostrophes")
        \o Cond(\E i \in 1..(Len(name) - 1) :
                    name[i] \in NameSpecialCh /\ name[i + 1] \in NameSpecialCh,
                field_name \o " cannot have consecutive spaces, hyphens, or apostrophes")

TitleSpecialCh ==
    {"!","@","#","$","%","^","&","*","(",")","+","=","[","]","{","}","|","\\",
     ":","\"",";","'","<",">","?",",",".","/"}

inappropriate_words ==
    { <<"s","p","a","m">>,
      <<"f","a","k","e">>,
      <<"s","c","a","m">>,
      <<"m","o","n","e","y">>,
      <<"c","a","s","h">>,
      <<"b","i","t","c","o","i","n">>,
      <<"c","r","y","p","t","o">> }

\* str.isupper(): a cased character, and no lower-case one
IsUpper(s) == AnyIn(s, UpperCh) /\ ~AnyIn(s, LowerCh)

\* validate_group_title looking for the words in the title as typed
validate_group_title_case_sensitive(raw) ==
    IF Strip(raw) = <<>> THEN <<"Group title is required">>
    ELSE
        LET title == Strip(raw)
            special_char_count == Cardinality({i \in 1..Len(title) : title[i] \in TitleSpecialCh})
        IN
        Cond(Len(title) < 5, "Group title must be at least 5 characters long")
        \o Cond(Len(title) > 200, "Group title must be no more than 200 characters long")
        \o Cond(~AnyIn(title, LetterCh), "Group title must contain at least one letter")
        \o Cond(IsUpper(title) /\ Len(title) > 10, "Group title cannot be all uppercase")
        \* special_char_count > len(title) * 0.3
        \o Cond(10 * special_char_count > 3 * Len(title),
                "Group title contains too many special characters")
        \o Cond(\E word \in inappropriate_words : HasSub(title, word),
                "Group title contains inappropriate content")

\* validate_group_title without the break: one error per word found
validate_group_title_every_word(raw) ==
    IF Strip(raw) = <<>> THEN <<"Group title is required">>
    ELSE
        LET title == Strip(raw)
            special_char_count == Cardinality({i \in 1..Len(title) : title[i] \in TitleSpecialCh})
        IN
        Cond(Len(title) < 5, "Group title must be at least 5 characters long")
        \o Cond(Len(title) > 200, "Group title must be no more than 200 characters long")
        \o Cond(~AnyIn(title, LetterCh), "Group title must contain at least one letter")
        \o Cond(IsUpper(title) /\ Len(title) > 10, "Group title cannot be all uppercase")
        \* special_char_count > len(title) * 0.3
        \o Cond(10 * special_char_count > 3 * Len(title),
                "Group title contains too many special characters")
        \o [i \in 1..Cardinality({word \in inappropriate_words : HasSub(Lower(title), word)})
               |-> "Group title contains inappropriate content"]

validate_group_title(raw) ==
    IF Strip(raw) = <<>> THEN <<"Group title is required">>
    ELSE
        LET title == Strip(raw)
            special_char_count == Cardinality({i \in 1..Len(title) : title[i] \in TitleSpecialCh})
        IN
        Cond(Len(title) < 5, "Group title must be at least 5 characters long")
        \o Cond(Len(title) > 200, "Group title must be no more than 200 characters long")
        \o Cond(~AnyIn(title, LetterCh), "Group title must contain at least one letter")
        \o Cond(IsUpper(title) /\ Len(title) > 10, "Group title cannot be all uppercase")
        \* special_char_count > len(title) * 0.3
        \o Cond(10 * special_char_count > 3 * Len(title),
                "Group title contains too many special characters")
        \o Cond(\E word \in inappropriate_words : HasSub(Lower(title), word),
                "Group title contains inappropriate content")

DestinationCh == LetterCh \cup DigitCh \cup SpaceCh \cup {",", ".", "-", "'"}

validate_destination(raw) ==
    IF Strip(raw) = <<>> THEN <<"Destination is required">>
    ELSE
        LET destination == Strip(raw) IN
        Cond(Len(destination) < 2, "Destination must be at least 2 characters long")
        \o Cond(Len(destination) > 100, "Destination must be no more than 100 characters long")
        \o Cond(~AnyIn(destination, LetterCh), "Destination must contain at least one letter")
        \o Cond(~MatchAll(destination, DestinationCh), "Destination contains invalid characters")

PasswordSpecialCh ==
    {"!","@","#","$","%","^","&","*","(",")",",",".","?","\"",":","{","}","|","<",">"}

common_passwords ==
    { <<"p","a","s","s","w","o","r","d">>,
      <<"1","2","3","4","5","6","7","8">>,
      <<"q","w","e","r","t","y">>,
      <<"a","b","c","1","2","3">>,
      <<"p","a","s","s","w","o","r","d","1","2","3">>,
      <<"a","d","m","i","n">>,
      <<"l","e","t","m","e","i","n">>,
      <<"w","e","l","c","o","m","e">>,
      <<"m","o","n","k","e","y">>,
      <<"1","2","3","4","5","6","7","8","9","0">> }

\* validate_password without the check for a digit
validate_password_digit_unchecked(password) ==
    IF password = <<>> THEN <<"Password is required">>
    ELSE
        Cond(Len(password) < 8, "Password must be at least 8 characters long")
        \o Cond(Len(password) > 128, "Password must be no more than 128 characters long")
        \o Cond(~AnyIn(password, LowerCh), "Password must contain at least one lowercase letter")
        \o Cond(~AnyIn(password, UpperCh), "Password must contain at least one uppercase letter")
        \o Cond(~AnyIn(password, PasswordSpecialCh),
                "Password must contain at least one special character")
        \o Cond(Lower(password) \in common_passwords,
                "Password is too common, please choose a stronger password")

validate_password(password) ==
    IF password = <<>> THEN <<"Password is required">>
    ELSE
        Cond(Len(password) < 8, "Password must be at least 8 characters long")
        \o Cond(Len(password) > 128, "Password must be no more than 128 characters long")
        \o Cond(~AnyIn(password, LowerCh), "Password must contain at least one lowercase letter")
        \o Cond(~AnyIn(password, UpperCh), "Password must contain at least one uppercase letter")
        \o Cond(~AnyIn(password, DigitCh), "Password must contain at least one number")
        \o Cond(~AnyIn(password, PasswordSpecialCh),
                "Password must contain at least one special character")
        \o Cond(Lower(password) \in common_passwords,
                "Password is too common, please choose a stronger password")

\* re.match(r'^[a-zA-Z0-9._%+-]+@[a-zA-Z0-9.-]+\.[a-zA-Z]{2,}$', email)
EmailLocalCh == LetterCh \cup DigitCh \cup {".", "_", "%", "+", "-"}

EmailDomainCh == LetterCh \cup DigitCh \cup {".", "-"}

EmailBodyMatches(s) ==
    \E at \in 2..Len(s) : \E dot \in (at + 2)..(Len(s) - 2) :
        /\ s[at] = "@"
        /\ AllIn(SubSeq(s, 1, at - 1), EmailLocalCh)
        /\ AllIn(SubSeq(s, at + 1, dot - 1), EmailDomainCh)
        /\ s[dot] = "."
        /\ AllIn(SubSeq(s, dot + 1, Len(s)), LetterCh)

email_pattern_matches(email) ==
    \/ EmailBodyMatches(email)
    \/ Len(email) >= 1 /\ email[Len(email)] = "\n"
       /\ EmailBodyMatches(SubSeq(email, 1, Len(email) - 1))

(***************************************************************************)
(* Parsing of the form's numbers and dates                                 *)
(***************************************************************************)
DigitSeq == <<"0","1","2","3","4","5","6","7","8","9">>

RECURSIVE DigitsValue(_)
DigitsValue(s) ==
    IF s = <<>> THEN 0
    ELSE 10 * DigitsValue(SubSeq(s, 1, Len(s) - 1)) + (IndexIn(s[Len(s)], DigitSeq) - 1)

\* the value of an optionally signed run of digits, white space around it
\* ignored; anything else is a ValueError (ok = FALSE)
ParseNumeral(raw) ==
    LET s == Strip(raw)
        signed == Len(s) >= 1 /\ s[1] \in {"+", "-"}
        digits == IF signed THEN SubSeq(s, 2, Len(s)) ELSE s
    IN  IF digits # <<>> /\ AllIn(digits, DigitCh)
        THEN [ok |-> TRUE,
              val |-> IF signed /\ s[1] = "-" THEN 0 - DigitsValue(digits)
                      ELSE DigitsValue(digits)]
        ELSE [ok |-> FALSE, val |-> 0]

\* int(text)
ParseInt(raw) == ParseNumeral(raw)

\* a float: a number, or the not-a-number value
Float(n) == [nan |-> FALSE, val |-> n]

NaN == [nan |-> TRUE, val |-> 0]

\* a < b and a > b on floats: every comparison with NaN is false
Less(a, b) == ~a.nan /\ ~b.nan /\ a.val < b.val

Greater(a, b) == ~a.nan /\ ~b.nan /\ a.val > b.val

\* float(text), for the texts the model submits: whole numbers, "nan" in
\* any case with or without a sign, and text that is no number
ParseFloat(raw) ==
    LET s == Lower(Strip(raw))
        unsigned == IF Len(s) >= 1 /\ s[1] \in {"+", "-"} THEN SubSeq(s, 2, Len(s)) ELSE s
    IN  IF unsigned = <<"n","a","n">> THEN [ok |-> TRUE, val |-> NaN]
        ELSE [ok |-> ParseNumeral(raw).ok, val |-> Float(ParseNumeral(raw).val)]

IsLeap(y) == (y % 4 = 0 /\ y % 100 # 0) \/ y % 400 = 0

DaysInMonth(y, m) ==
    IF m = 2 THEN (IF IsLeap(y) THEN 29 ELSE 28)
    ELSE IF m \in {4, 6, 9, 11} THEN 30 ELSE 31

RECURSIVE DaysBeforeMonth(_, _)
DaysBeforeMonth(y, m) ==
    IF m = 1 THEN 0 ELSE DaysBeforeMonth(y, m - 1) + DaysInMonth(y, m - 1)

\* date.toordinal(): days since 0001-01-01, which is day 1
Ordinal(y, m, d) ==
    365 * (y - 1) + ((y - 1) \div 4) - ((y - 1) \div 100) + ((y - 1) \div 400)
    + DaysBeforeMonth(y, m) + d

\* datetime.strptime(text, '%Y-%m-%d').date(), as the date's ordinal
ParseDate(s) ==
    LET dashes == {i \in 1..Len(s) : s[i] = "-"}
        bad == [ok |-> FALSE, val |-> 0]
    IN  IF Cardinality(dashes) # 2 THEN bad
        ELSE
            LET d1 == CHOOSE i \in dashes : \A j \in dashes : i <= j
                d2 == CHOOSE i \in dashes : \A j \in dashes : j <= i
                ys == SubSeq(s, 1, d1 - 1)
                ms == SubSeq(s, d1 + 1, d2 - 1)
                ds == SubSeq(s, d2 + 1, Len(s))
            IN  IF /\ Len(ys) = 4 /\ AllIn(ys, DigitCh)
                   /\ Len(ms) \in {1, 2} /\ AllIn(ms, DigitCh)
                   /\ Len(ds) \in {1, 2} /\ AllIn(ds, DigitCh)
                   /\ DigitsValue(ys) >= 1
                   /\ DigitsValue(ms) \in 1..12
                   /\ DigitsValue(ds) >= 1
                   /\ DigitsValue(ds) <= DaysInMonth(DigitsValue(ys), DigitsValue(ms))
                THEN [ok |-> TRUE,
                      val |-> Ordinal(DigitsValue(ys), DigitsValue(ms), DigitsValue(ds))]
                ELSE bad

\* Python's None and a present value
None == <<>>

Some(v) == <<v>>

(***************************************************************************)
(* The texts the model submits.  The validators are pure, so their verdict *)
(* on each of these texts is computed once and looked up by the handlers.  *)
(***************************************************************************)
UsernameInputs ==
    { <<"a","l","i","c","e">>,
      <<"A","l","i","c","e">>,
      <<" ","a","l","i","c","e">>,
      <<"a","b","1","2">> }

EmailInputs ==
    { <<"a","@","x",".","c","o">>,
      <<"A","@","x",".","c","o">>,
      <<" ","a","@","x",".","c","o">>,
      <<"b","@","x",".","c","o">>,
      <<"b","a","d">> }

GoodPassword == <<"P","a","s","s","w","0","r","d","!">>

WeakPassword == <<"p","a","s","s","w","o","r","d">>

\* the forms of register: every username with the two spellings of one
\* email, one username with every email, and one form with a weak password
RegisterForm(username, email, password) ==
    [username |-> username, email |-> email, password |-> password,
     confirm_password |-> GoodPassword,
     first_name |-> <<"a","n","n">>, last_name |-> <<"l","e","e">>]

RegisterForms ==
    {RegisterForm(u, e, GoodPassword) :
         u \in UsernameInputs, e \in {<<"a","@","x",".","c","o">>, <<"A","@","x",".","c","o">>}}
    \cup {RegisterForm(<<"a","l","i","c","e">>, e, GoodPassword) : e \in EmailInputs}
    \cup {RegisterForm(<<"a","l","i","c","e">>, <<"b","@","x",".","c","o">>, WeakPassword)}

\* a field as submitted, or as the form handler cleans it
Cleaned(texts) == texts \cup {Strip(x) : x \in texts}

username_verdict == [u \in Cleaned(UsernameInputs) |-> validate_username(u)]

email_verdict == [e \in Cleaned(EmailInputs) |-> email_pattern_matches(e)]

password_verdict == [p \in {GoodPassword, WeakPassword} |-> validate_password(p)]

first_name_verdict ==
    [n \in Cleaned({f.first_name : f \in RegisterForms}) |-> validate_name(n, "First name")]

last_name_verdict ==
    [n \in Cleaned({f.last_name : f \in RegisterForms}) |-> validate_name(n, "Last name")]

\* the group form's fields: texts that pass, and texts that break one rule
TitleInputs ==
    { <<"A","l","p","s"," ","h","i","k","e">>,
      <<" ","A","l","p","s"," ","h","i","k","e"," ">>,
      <<"T","r","i","p">>,
      <<"F","r","e","e"," ","c","a","s","h">> }

DestinationInputs ==
    { <<"B","e","r","n">>,
      <<"B","e","r","n","!">> }

DescriptionInputs ==
    { <<"W","a","l","k"," ","a","n","d"," ","t","a","l","k">>,
      <<"T","o","o"," ","s","h","o","r","t">> }

InterestsInputs == { <<>>, <<"h","i","k","e">> }

\* the day before the first today of the model, that day, five days later,
\* then 365 and 366 days after that, and text that is no date
DateInputs ==
    { <<"2","0","2","6","-","1","1","-","0","4">>,
      <<"2","0","2","6","-","1","1","-","0","5">>,
      <<"2","0","2","6","-","1","1","-","1","0">>,
      <<"2","0","2","7","-","1","1","-","1","0">>,
      <<"2","0","2","7","-","1","1","-","1","1">>,
      <<"s","o","o","n">> }

BudgetInputs ==
    { <<>>, <<"0">>, <<"5","0","0">>, <<"9","0","0">>, <<"-","5">>,
      <<"1","0","0","0","0","1">>, <<"l","o","t","s">>, <<"n","a","n">> }

MaxMembersInputs ==
    { <<"1">>, <<"2">>, <<"3">>, <<"5","0">>, <<"5","1">>, <<"t","e","n">>, <<>> }

title_verdict == [x \in Cleaned(TitleInputs) |-> validate_group_title(x)]

destination_verdict == [x \in Cleaned(DestinationInputs) |-> validate_destination(x)]

\* 400 days after 2026-11-05
LongTripEnd == <<"2","0","2","7","-","1","2","-","1","0">>

date_value == [x \in DateInputs \cup {LongTripEnd} |-> ParseDate(x)]

float_value == [x \in BudgetInputs |-> ParseFloat(x)]

int_value == [x \in MaxMembersInputs |-> ParseInt(x)]

(***************************************************************************)
(* The store and the requests in flight                                    *)
(***************************************************************************)
VARIABLES
    collation,  \* how the store compares text: "ci" (MySQL's default) or "cs"
    today,      \* date.today(), as an ordinal
    users,      \* the rows of User
    groups,     \* the rows of TravelGroup
    members,    \* the rows of GroupMember, without their id (which nothing
                \* reads): a bag, as two rows may hold the same values
    messages,   \* the rows of Message
    next_id,    \* the next autoincrement id of User and of TravelGroup
    pc,         \* per worker thread: where its request stands
    req,        \* per worker thread: the locals of its request
    last        \* the response the application gave last

vars == <<collation, today, users, groups, members, messages, next_id, pc, req, last>>

\* the worker threads serving requests at the same time
NumThreads == 2

Threads == 1..NumThreads

NoReq == [op |-> "none"]

\* a response: the handler, how the request ended, and the violations it
\* found (all_errors, or the endpoint's errors); the flashed text of the
\* other outcomes is told by result
Response(op, result, errors) == [op |-> op, result |-> result, errors |-> errors]

Idle(t) == pc[t] = "idle"

AllIdle == \A t \in Threads : Idle(t)

\* the threads are alike: a new request goes to the first idle one
Takes(t) == Idle(t) /\ \A other \in Threads : other < t => ~Idle(other)

Start(t, label, locals) ==
    /\ pc' = [pc EXCEPT ![t] = label]
    /\ req' = [req EXCEPT ![t] = locals]

Finish(t) ==
    /\ pc' = [pc EXCEPT ![t] = "idle"]
    /\ req' = [req EXCEPT ![t] = NoReq]

\* column = value in a WHERE clause or a unique index: the columns declare
\* no collation, so the store's default decides whether case counts
StoreEq(a, b) == IF collation = "ci" THEN Lower(a) = Lower(b) ELSE a = b

\* User.query.filter_by(username=username).first()
user_by_username(username) == {x \in users : StoreEq(x.username, username)}

\* User.query.filter_by(email=email).first()
user_by_email(email) == {x \in users : StoreEq(x.email, email)}

UserIds == {x.id : x \in users}

\* a User table whose username column lost its unique index
UserEmailConflict(row) == \E x \in users : StoreEq(x.email, row.email)

\* the unique indexes of User.username and User.email
UserUniqueConflict(row) ==
    \E x \in users : StoreEq(x.username, row.username) \/ StoreEq(x.email, row.email)

(***************************************************************************)
(* The real-time validation endpoints                                      *)
(***************************************************************************)
\* the endpoint without its lookup
validate_username_api_format_only(username) == username_verdict[username]

validate_username_api_errors(username) ==
    LET errors == username_verdict[username] IN
    errors \o Cond(errors = <<>> /\ user_by_username(username) # {},
                   "Username is already taken")

validate_email_api_errors(email) ==
    LET errors == Cond(~email_verdict[email], "Please enter a valid email address") IN
    errors \o Cond(errors = <<>> /\ user_by_email(email) # {},
                   "Email is already registered")

ApiResult(errors) == IF errors = <<>> THEN "valid" ELSE "invalid"

validate_username_api(username) ==
    /\ last' = Response("validate_username_api",
                        ApiResult(validate_username_api_errors(username)),
                        validate_username_api_errors(username))
    /\ UNCHANGED <<collation, messages, today, users, groups, members, next_id, pc, req>>

validate_email_api(email) ==
    /\ last' = Response("validate_email_api",
                        ApiResult(validate_email_api_errors(email)),
                        validate_email_api_errors(email))
    /\ UNCHANGED <<collation, messages, today, users, groups, members, next_id, pc, req>>

(***************************************************************************)
(* register                                                                *)
(***************************************************************************)
Prefixed(prefix, errors) == [i \in 1..Len(errors) |-> prefix \o errors[i]]

register_username_errors(username) ==
    LET username_errors == username_verdict[username] IN
    Prefixed("Username: ", username_errors)
    \o Cond(username_errors = <<>> /\ user_by_username(username) # {},
            "Username: Username is already taken")

register_email_errors(email) ==
    IF ~email_verdict[email] THEN <<"Email: Please enter a valid email address">>
    ELSE IF user_by_email(email) # {} THEN <<"Email: Email is already registered">>
    ELSE <<>>

\* lines 401-406: the fields as the handler cleans them
register_fields(form) ==
    [username |-> Strip(form.username),
     email |-> Strip(form.email),
     password |-> form.password,
     confirm_password |-> form.confirm_password,
     first_name |-> Strip(form.first_name),
     last_name |-> Strip(form.last_name)]

\* lines 408-443: all_errors
register_errors(form) ==
    LET f == register_fields(form) IN
    register_username_errors(f.username)
    \o register_email_errors(f.email)
    \o first_name_verdict[f.first_name]
    \o last_name_verdict[f.last_name]
    \o Prefixed("Password: ", password_verdict[f.password])
    \o Cond(f.password # f.confirm_password, "Passwords do not match")

\* the locals of a register request
register_validate(form) ==
    LET f == register_fields(form) IN
    [op |-> "register",
     username |-> f.username,
     email |-> f.email,
     password |-> f.password,
     first_name |-> f.first_name,
     last_name |-> f.last_name,
     all_errors |-> register_errors(form)]

\* generate_password_hash(password): a salted digest, never the password
generate_password_hash(password) == <<"hash-of", password>>

\* lines 452-458: the row the handler adds
register_row(r) ==
    [id |-> next_id.user,
     username |-> r.username,
     email |-> Lower(r.email),
     password_hash |-> generate_password_hash(r.password),
     first_name |-> Title(r.first_name),
     last_name |-> Title(r.last_name)]

\* a register that goes on to the insert whatever all_errors holds
register_submit_unchecked(t, form) ==
    /\ Takes(t)
    /\ Start(t, "register_commit", register_validate(form))
    /\ UNCHANGED <<collation, messages, today, users, groups, members, next_id, last>>

\* the POST up to the check of all_errors: rejected, or on to the insert
register_submit(t, form) ==
    /\ Takes(t)
    /\ LET r == register_validate(form) IN
       IF r.all_errors # <<>>
       THEN /\ last' = Response("register", "rejected", r.all_errors)
            /\ UNCHANGED <<pc, req>>
       ELSE /\ Start(t, "register_commit", r)
            /\ UNCHANGED last
    /\ UNCHANGED <<collation, messages, today, users, groups, members, next_id>>

\* db.session.add(user); db.session.commit(), and the except around them
register_commit(t) ==
    /\ pc[t] = "register_commit"
    /\ IF UserUniqueConflict(register_row(req[t]))
       THEN /\ last' = Response("register", "failed", req[t].all_errors)
            /\ UNCHANGED <<users, next_id>>
       ELSE /\ users' = users \cup {register_row(req[t])}
            /\ next_id' = [next_id EXCEPT !.user = @ + 1]
            /\ last' = Response("register", "ok", req[t].all_errors)
    /\ Finish(t)
    /\ UNCHANGED <<collation, messages, today, groups, members>>

(***************************************************************************)
(* The checks create_group and edit_group make on the form                 *)
(***************************************************************************)
\* description = request.form['description'].strip(), lines 555-558 and
\* 759-762
description_errors(description) ==
    IF description = <<>> \/ Len(Strip(description)) < 10
    THEN <<"Description: Must be at least 10 characters long">>
    ELSE IF Len(description) > 2000
    THEN <<"Description: Must be no more than 2000 characters long">>
    ELSE <<>>

\* both dates parse, or the whole try block is left with a ValueError
dates_parse(form) == date_value[form.start_date].ok /\ date_value[form.end_date].ok

\* the date checks as a chain that stops at the first one that fails
create_group_date_errors_first_only(form) ==
    IF dates_parse(form)
    THEN LET start_date == date_value[form.start_date].val
             end_date == date_value[form.end_date].val
         IN  IF start_date < today THEN <<"Start date cannot be in the past">>
             ELSE IF end_date < start_date THEN <<"End date must be after start date">>
             ELSE Cond(end_date - start_date > 365, "Trip duration cannot exceed 365 days")
    ELSE <<"Invalid date format">>

create_group_date_errors(form) ==
    IF dates_parse(form)
    THEN LET start_date == date_value[form.start_date].val
             end_date == date_value[form.end_date].val
         IN  Cond(start_date < today, "Start date cannot be in the past")
             \o Cond(end_date < start_date, "End date must be after start date")
             \o Cond(end_date - start_date > 365, "Trip duration cannot exceed 365 days")
    ELSE <<"Invalid date format">>

\* the date checks of an edit_group that lets any start date through
edit_group_date_errors_any_start(form) ==
    IF dates_parse(form)
    THEN LET start_date == date_value[form.start_date].val
             end_date == date_value[form.end_date].val
         IN  Cond(end_date < start_date, "End date must be after start date")
             \o Cond(end_date - start_date > 365, "Trip duration cannot exceed 365 days")
    ELSE <<"Invalid date format">>

edit_group_date_errors(form) ==
    IF dates_parse(form)
    THEN LET start_date == date_value[form.start_date].val
             end_date == date_value[form.end_date].val
         IN  Cond(start_date < today, "Start date cannot be in the past")
             \o Cond(end_date < start_date, "End date must be after start date")
             \o Cond(end_date - start_date > 365, "Trip duration cannot exceed 365 days")
    ELSE <<"Invalid date format">>

\* start_date and end_date after the try block: the dates, or None for both
start_date_of(form) ==
    IF dates_parse(form) THEN Some(date_value[form.start_date].val) ELSE None

end_date_of(form) ==
    IF dates_parse(form) THEN Some(date_value[form.end_date].val) ELSE None

\* budget_min after lines 579-590 (783-794): the number, or None when the
\* field is empty or no number
budget_min_of(form) ==
    IF form.budget_min # <<>> /\ float_value[form.budget_min].ok
    THEN Some(float_value[form.budget_min].val)
    ELSE None

budget_min_errors(form) ==
    IF form.budget_min = <<>> THEN <<>>
    ELSE IF ~float_value[form.budget_min].ok THEN <<"Invalid minimum budget format">>
    ELSE IF Less(float_value[form.budget_min].val, Float(0))
    THEN <<"Minimum budget cannot be negative">>
    ELSE IF Greater(float_value[form.budget_min].val, Float(100000))
    THEN <<"Minimum budget seems unreasonably high">>
    ELSE <<>>

budget_max_of(form) ==
    IF form.budget_max # <<>> /\ float_value[form.budget_max].ok
    THEN Some(float_value[form.budget_max].val)
    ELSE None

\* "budget_min and": None and 0.0 are false, NaN is true
Truthy(number) == number # None /\ number[1] # Float(0)

\* the checks of budget_max without the comparison with budget_min
budget_max_errors_unordered(form) ==
    IF form.budget_max = <<>> THEN <<>>
    ELSE IF ~float_value[form.budget_max].ok THEN <<"Invalid maximum budget format">>
    ELSE IF Less(float_value[form.budget_max].val, Float(0))
    THEN <<"Maximum budget cannot be negative">>
    ELSE IF Greater(float_value[form.budget_max].val, Float(100000))
    THEN <<"Maximum budget seems unreasonably high">>
    ELSE <<>>

budget_max_errors(form) ==
    IF form.budget_max = <<>> THEN <<>>
    ELSE IF ~float_value[form.budget_max].ok THEN <<"Invalid maximum budget format">>
    ELSE IF Less(float_value[form.budget_max].val, Float(0))
    THEN <<"Maximum budget cannot be negative">>
    ELSE IF Greater(float_value[form.budget_max].val, Float(100000))
    THEN <<"Maximum budget seems unreasonably high">>
    ELSE IF /\ Truthy(budget_min_of(form))
            /\ Less(float_value[form.budget_max].val, budget_min_of(form)[1])
    THEN <<"Maximum budget must be greater than minimum budget">>
    ELSE <<>>

max_members_of(form) ==
    IF int_value[form.max_members].ok THEN Some(int_value[form.max_members].val) ELSE None

\* the capacity checks with a capacity that is no integer counted as 0
create_group_max_members_errors_defaulted(form) ==
    IF ~int_value[form.max_members].ok
    THEN <<"Invalid maximum members value", "Group must allow at least 2 members">>
    ELSE IF int_value[form.max_members].val < 2 THEN <<"Group must allow at least 2 members">>
    ELSE IF int_value[form.max_members].val > 50
    THEN <<"Group cannot have more than 50 members">>
    ELSE <<>>

create_group_max_members_errors(form) ==
    IF ~int_value[form.max_members].ok THEN <<"Invalid maximum members value">>
    ELSE IF int_value[form.max_members].val < 2 THEN <<"Group must allow at least 2 members">>
    ELSE IF int_value[form.max_members].val > 50
    THEN <<"Group cannot have more than 50 members">>
    ELSE <<>>

\* the rows of GroupMember a query selects, each as often as it is stored
MembersAmong(selected) == [m \in selected |-> CopiesIn(m, members)]

\* GroupMember.query.filter_by(group_id=group_id, status='approved').count()
get_member_count(group_id) ==
    BagCardinality(MembersAmong({m \in BagToSet(members) :
                                    m.group_id = group_id /\ m.status = "approved"}))

\* the capacity checks of edit_group without the look at the member count
edit_group_max_members_errors_uncounted(form, current_member_count) ==
    IF ~int_value[form.max_members].ok THEN <<"Invalid maximum members value">>
    ELSE IF int_value[form.max_members].val < 2 THEN <<"Group must allow at least 2 members">>
    ELSE IF int_value[form.max_members].val > 50
    THEN <<"Group cannot have more than 50 members">>
    ELSE <<>>

edit_group_max_members_errors(form, current_member_count) ==
    IF ~int_value[form.max_members].ok THEN <<"Invalid maximum members value">>
    ELSE IF int_value[form.max_members].val < 2 THEN <<"Group must allow at least 2 members">>
    ELSE IF int_value[form.max_members].val > 50
    THEN <<"Group cannot have more than 50 members">>
    ELSE IF int_value[form.max_members].val < current_member_count
    THEN <<"Cannot reduce max members below current member count ("
           \o ToString(current_member_count) \o ")">>
    ELSE <<>>

\* the fields both handlers take from the form and clean
group_fields(form) ==
    [title |-> Strip(form.title),
     description |-> Strip(form.description),
     destination |-> Strip(form.destination),
     start_date |-> start_date_of(form),
     end_date |-> end_date_of(form),
     max_members |-> max_members_of(form),
     budget_min |-> budget_min_of(form),
     budget_max |-> budget_max_of(form),
     interests |-> IF Strip(form.interests) # <<>> THEN Some(Strip(form.interests)) ELSE None]

\* all_errors of create_group, lines 541-616
create_group_errors(form) ==
    Prefixed("Title: ", title_verdict[Strip(form.title)])
    \o Prefixed("Destination: ", destination_verdict[Strip(form.destination)])
    \o description_errors(Strip(form.description))
    \o create_group_date_errors(form)
    \o budget_min_errors(form)
    \o budget_max_errors(form)
    \o create_group_max_members_errors(form)

\* all_errors of edit_group, lines 745-824
edit_group_errors(form, group_id) ==
    Prefixed("Title: ", title_verdict[Strip(form.title)])
    \o Prefixed("Destination: ", destination_verdict[Strip(form.destination)])
    \o description_errors(Strip(form.description))
    \o edit_group_date_errors(form)
    \o budget_min_errors(form)
    \o budget_max_errors(form)
    \o edit_group_max_members_errors(form, get_member_count(group_id))

(***************************************************************************)
(* create_group, edit_group, join_group, delete_group                      *)
(***************************************************************************)
GroupIds == {g.id : g \in groups}

\* TravelGroup.query.get(group_id)
group_by_id(group_id) == CHOOSE g \in groups : g.id = group_id

\* how many groups and membership rows the model lets the store ever hold
MaxGroups == 1

MaxMemberRows == 3

\* lines 625-636: the row create_group adds
create_group_row(form, user_id) ==
    LET f == group_fields(form) IN
    [id |-> next_id.group,
     title |-> f.title,
     description |-> f.description,
     destination |-> f.destination,
     start_date |-> f.start_date[1],
     end_date |-> f.end_date[1],
     max_members |-> f.max_members[1],
     budget_min |-> f.budget_min,
     budget_max |-> f.budget_max,
     interests |-> f.interests,
     creator_id |-> user_id]

\* the statement's parameters as the configured driver (pymysql) sends
\* them: it raises on a float that is NaN, and nothing is executed
budgets_bind(f) ==
    /\ f.budget_min # None => ~f.budget_min[1].nan
    /\ f.budget_max # None => ~f.budget_max[1].nan

\* the POST of create_group by a signed-in user: it reads nothing from the
\* store, so the checks and the insert are one step
create_group(user_id, form) ==
    /\ user_id \in UserIds
    /\ next_id.group <= MaxGroups
    /\ IF create_group_errors(form) # <<>>
       THEN /\ last' = Response("create_group", "rejected", create_group_errors(form))
            /\ UNCHANGED <<groups, next_id>>
       ELSE IF ~budgets_bind(group_fields(form))
       THEN /\ last' = Response("create_group", "failed", create_group_errors(form))
            /\ UNCHANGED <<groups, next_id>>
       ELSE /\ groups' = groups \cup {create_group_row(form, user_id)}
            /\ next_id' = [next_id EXCEPT !.group = @ + 1]
            /\ last' = Response("create_group", "ok", create_group_errors(form))
    /\ UNCHANGED <<collation, messages, today, users, members, pc, req>>

\* a check that lets every signed-in user through
not_creator_never(group, user_id) == FALSE

\* lines 734 and 857: group.creator_id != current_user.id
not_creator(group, user_id) == group.creator_id # user_id

\* the POST of edit_group up to the check of all_errors
edit_group_submit(t, user_id, group_id, form) ==
    /\ Takes(t)
    /\ user_id \in UserIds
    /\ IF group_id \notin GroupIds
       THEN /\ last' = Response("edit_group", "not found", <<>>)
            /\ UNCHANGED <<pc, req>>
       ELSE IF not_creator(group_by_id(group_id), user_id)
       THEN /\ last' = Response("edit_group", "forbidden", <<>>)
            /\ UNCHANGED <<pc, req>>
       ELSE IF edit_group_errors(form, group_id) # <<>>
       THEN /\ last' = Response("edit_group", "rejected", edit_group_errors(form, group_id))
            /\ UNCHANGED <<pc, req>>
       ELSE /\ Start(t, "edit_group_commit",
                     [op |-> "edit_group", user_id |-> user_id,
                      group |-> group_by_id(group_id),
                      fields |-> group_fields(form),
                      all_errors |-> edit_group_errors(form, group_id)])
            /\ UNCHANGED last
    /\ UNCHANGED <<collation, messages, today, users, groups, members, next_id>>

\* lines 833-841: the loaded row with the form's values assigned
edit_group_row(group, f) ==
    [group EXCEPT
        !.title = f.title,
        !.description = f.description,
        !.destination = f.destination,
        !.start_date = f.start_date[1],
        !.end_date = f.end_date[1],
        !.max_members = f.max_members[1],
        !.budget_min = f.budget_min,
        !.budget_max = f.budget_max,
        !.interests = f.interests]

\* the UPDATE the session flushes: the columns whose value the handler
\* changed on the loaded row, written over the row as it is now
flushed_row(current, loaded, assigned) ==
    [column \in DOMAIN current |->
        IF assigned[column] # loaded[column] THEN assigned[column] ELSE current[column]]

\* db.session.commit() of edit_group; the row may be gone by now, and the
\* UPDATE then matches nothing and the except reports a failure, as it
\* does when the driver raises
edit_group_commit(t) ==
    /\ pc[t] = "edit_group_commit"
    /\ IF req[t].group.id \notin GroupIds \/ ~budgets_bind(req[t].fields)
       THEN /\ last' = Response("edit_group", "failed", req[t].all_errors)
            /\ UNCHANGED groups
       ELSE /\ groups' = (groups \ {group_by_id(req[t].group.id)})
                         \cup {flushed_row(group_by_id(req[t].group.id), req[t].group,
                                           edit_group_row(req[t].group, req[t].fields))}
            /\ last' = Response("edit_group", "ok", req[t].all_errors)
    /\ Finish(t)
    /\ UNCHANGED <<collation, messages, today, users, members, next_id>>

\* GroupMember.query.filter_by(user_id=..., group_id=...).first()
existing_member(user_id, group_id) ==
    {m \in BagToSet(members) : m.user_id = user_id /\ m.group_id = group_id}

\* join_group up to the insert: the group, the membership and the count are
\* read here
join_group_submit(t, user_id, group_id) ==
    /\ Takes(t)
    /\ user_id \in UserIds
    /\ BagCardinality(members) + Cardinality({w \in Threads : pc[w] = "join_group_commit"})
           < MaxMemberRows
    /\ IF group_id \notin GroupIds
       THEN /\ last' = Response("join_group", "failed", <<>>)
            /\ UNCHANGED <<pc, req>>
       ELSE IF existing_member(user_id, group_id) # {}
       THEN /\ last' = Response("join_group", "already", <<>>)
            /\ UNCHANGED <<pc, req>>
       ELSE IF get_member_count(group_id) >= group_by_id(group_id).max_members
       THEN /\ last' = Response("join_group", "full", <<>>)
            /\ UNCHANGED <<pc, req>>
       ELSE /\ Start(t, "join_group_commit",
                     [op |-> "join_group", user_id |-> user_id, group_id |-> group_id])
            /\ UNCHANGED last
    /\ UNCHANGED <<collation, messages, today, users, groups, members, next_id>>

\* a GroupMember table whose group_id lost its foreign key
member_user_key_holds(row) == row.user_id \in UserIds

\* the foreign keys of GroupMember: user_id and group_id name stored rows
member_keys_hold(row) == row.user_id \in UserIds /\ row.group_id \in GroupIds

join_group_row(r) == [user_id |-> r.user_id, group_id |-> r.group_id, status |-> "approved"]

\* db.session.add(member); db.session.commit(), and the except around them
join_group_commit(t) ==
    /\ pc[t] = "join_group_commit"
    /\ IF member_keys_hold(join_group_row(req[t]))
       THEN /\ members' = members (+) SetToBag({join_group_row(req[t])})
            /\ last' = Response("join_group", "ok", <<>>)
       ELSE /\ last' = Response("join_group", "failed", <<>>)
            /\ UNCHANGED members
    /\ Finish(t)
    /\ UNCHANGED <<collation, messages, today, users, groups, next_id>>

\* the ids of group.messages, the backref of Message.group
group_messages(group_id) == {m.id : m \in {x \in messages : x.group_id = Some(group_id)}}

\* delete_group up to the try block: the group is loaded, the creator checked;
\* seen is what a transaction that reads from the snapshot of its first
\* query (REPEATABLE READ, MySQL's default) finds in group.messages later
delete_group_submit(t, user_id, group_id) ==
    /\ Takes(t)
    /\ user_id \in UserIds
    /\ IF group_id \notin GroupIds
       THEN /\ last' = Response("delete_group", "not found", <<>>)
            /\ UNCHANGED <<pc, req>>
       ELSE IF not_creator(group_by_id(group_id), user_id)
       THEN /\ last' = Response("delete_group", "forbidden", <<>>)
            /\ UNCHANGED <<pc, req>>
       ELSE /\ Start(t, "delete_group_members",
                     [op |-> "delete_group", user_id |-> user_id,
                      group_id |-> group_id, deleted |-> EmptyBag,
                      seen |-> group_messages(group_id)])
            /\ UNCHANGED last
    /\ UNCHANGED <<collation, messages, today, users, groups, members, next_id>>

\* GroupMember.query.filter_by(group_id=group_id).delete(): the rows there
\* now are deleted in this request's transaction
delete_group_members(t) ==
    /\ pc[t] = "delete_group_members"
    /\ pc' = [pc EXCEPT ![t] = "delete_group_commit"]
    /\ req' = [req EXCEPT ![t].deleted =
                   MembersAmong({m \in BagToSet(members) : m.group_id = req[t].group_id})]
    /\ UNCHANGED <<collation, messages, today, users, groups, members, next_id, last>>

\* the foreign key of GroupMember.group_id when the group's row is deleted:
\* no membership row outside the transaction's deletions may name the group
group_unreferenced(group_id, deleted) ==
    \A m \in BagToSet(members (-) deleted) : m.group_id # group_id

\* the rows of Message with the group_id of those among ids set to NULL
group_messages_orphaned(ids) ==
    {IF m.id \in ids THEN [m EXCEPT !.group_id = None] ELSE m : m \in messages}

\* db.session.delete(group); db.session.commit(), and the except around them.
\* The relationship Message.group has no delete cascade, so the session
\* loads group.messages and sets their group_id to NULL before it deletes the
\* group; it loads them from the snapshot (seen) or as they are now, as the
\* store's isolation level has it. The foreign key of a message it did not
\* load makes the DELETE fail.
delete_group_commit(t) ==
    /\ pc[t] = "delete_group_commit"
    /\ \E loaded \in {req[t].seen, group_messages(req[t].group_id)} :
           IF /\ req[t].group_id \in GroupIds
              /\ group_unreferenced(req[t].group_id, req[t].deleted)
              /\ group_messages(req[t].group_id) \subseteq loaded
           THEN /\ members' = members (-) req[t].deleted
                /\ groups' = groups \ {group_by_id(req[t].group_id)}
                /\ messages' = group_messages_orphaned(loaded)
                /\ last' = Response("delete_group", "ok", <<>>)
           ELSE /\ last' = Response("delete_group", "failed", <<>>)
                /\ UNCHANGED <<members, groups, messages>>
    /\ Finish(t)
    /\ UNCHANGED <<collation, today, users, next_id>>

(***************************************************************************)
(* Messages                                                                *)
(***************************************************************************)
\* how many rows of Message the model lets the requests write
MaxMessages == 2

\* subject and message of the two forms: empty, blank, and a text
MessageTextInputs == { <<>>, <<" ">>, <<"h","i">> }

MessageIds == {m.id : m \in messages}

message_by_id(id) == CHOOSE m \in messages : m.id = id

\* Message(sender_id=..., recipient_id=..., group_id=..., subject=...,
\* message=...); is_read takes the column's default
Message(sender_id, recipient_id, group_id, subject, message_text) ==
    [sender_id |-> sender_id, recipient_id |-> recipient_id, group_id |-> group_id,
     subject |-> subject, message |-> message_text, is_read |-> FALSE]

\* the foreign keys of Message, group_id being nullable
message_keys_hold(row) ==
    /\ row.sender_id \in UserIds
    /\ row.recipient_id \in UserIds
    /\ row.group_id # None => row.group_id[1] \in GroupIds

\* db.session.add(message); db.session.commit(): no row of Message is ever
\* deleted, so the new id is one more than the number of rows
message_insert(t, op) ==
    /\ IF message_keys_hold(req[t].row)
       THEN /\ messages' = messages \cup
                   {[id |-> Cardinality(messages) + 1] @@ req[t].row}
            /\ last' = Response(op, "ok", <<>>)
       ELSE /\ last' = Response(op, "failed", <<>>)
            /\ UNCHANGED messages
    /\ Finish(t)
    /\ UNCHANGED <<collation, today, users, groups, members, next_id>>

\* the requests that are about to insert a message
MessagesInFlight ==
    Cardinality({w \in Threads : pc[w] \in {"contact_creator_commit", "reply_message_commit"}})

\* a creator that never counts as the sender
messaging_self_never(group, user_id) == FALSE

\* line 910: group.creator_id == current_user.id
messaging_self(group, user_id) == group.creator_id = user_id

\* the POST of contact_creator up to the insert
contact_creator_submit(t, user_id, group_id, subject, message_text) ==
    /\ Takes(t)
    /\ user_id \in UserIds
    /\ Cardinality(messages) + MessagesInFlight < MaxMessages
    /\ IF group_id \notin GroupIds
       THEN /\ last' = Response("contact_creator", "not found", <<>>)
            /\ UNCHANGED <<pc, req>>
       ELSE IF messaging_self(group_by_id(group_id), user_id)
       THEN /\ last' = Response("contact_creator", "refused", <<"You cannot message yourself">>)
            /\ UNCHANGED <<pc, req>>
       ELSE IF Strip(subject) = <<>> \/ Strip(message_text) = <<>>
       THEN /\ last' = Response("contact_creator", "rejected", <<"Please fill in all fields">>)
            /\ UNCHANGED <<pc, req>>
       ELSE /\ Start(t, "contact_creator_commit",
                     [op |-> "contact_creator",
                      row |-> Message(user_id, group_by_id(group_id).creator_id,
                                      Some(group_id), Strip(subject), Strip(message_text))])
            /\ UNCHANGED last
    /\ UNCHANGED <<collation, today, users, groups, members, messages, next_id>>

contact_creator_commit(t) ==
    /\ pc[t] = "contact_creator_commit"
    /\ message_insert(t, "contact_creator")

\* the unread messages of every user
unread_messages_of_anyone(user_id) == {m \in messages : ~m.is_read}

\* Message.query.filter_by(recipient_id=current_user.id, is_read=False).all()
unread_messages(user_id) == {m \in messages : m.recipient_id = user_id /\ ~m.is_read}

\* Message.query.filter_by(recipient_id=current_user.id)
received(user_id) == {m \in messages : m.recipient_id = user_id}

\* messages up to the commit: the three queries, which one transaction
\* answers from one snapshot
messages_query(t, user_id) ==
    /\ Takes(t)
    /\ user_id \in UserIds
    /\ messages # {}
    /\ Start(t, "messages_commit",
             [op |-> "messages", user_id |-> user_id,
              received |-> {m.id : m \in received(user_id)},
              unread_messages |-> {m.id : m \in unread_messages(user_id)}])
    /\ UNCHANGED <<collation, today, users, groups, members, messages, next_id, last>>

\* msg.is_read = True for each of unread_messages; db.session.commit()
messages_commit(t) ==
    /\ pc[t] = "messages_commit"
    /\ messages' = {IF m.id \in req[t].unread_messages THEN [m EXCEPT !.is_read = TRUE] ELSE m :
                       m \in messages}
    /\ last' = Response("messages", "ok", <<>>)
    /\ Finish(t)
    /\ UNCHANGED <<collation, today, users, groups, members, next_id>>

\* the POST of reply_message up to the insert
reply_message_submit(t, user_id, message_id, subject, message_text) ==
    /\ Takes(t)
    /\ user_id \in UserIds
    /\ Cardinality(messages) + MessagesInFlight < MaxMessages
    /\ IF message_id \notin MessageIds
       THEN /\ last' = Response("reply_message", "not found", <<>>)
            /\ UNCHANGED <<pc, req>>
       ELSE IF message_by_id(message_id).recipient_id # user_id
       THEN /\ last' = Response("reply_message", "forbidden",
                                <<"You can only reply to messages sent to you">>)
            /\ UNCHANGED <<pc, req>>
       ELSE IF Strip(subject) = <<>> \/ Strip(message_text) = <<>>
       THEN /\ last' = Response("reply_message", "rejected", <<"Please fill in all fields">>)
            /\ UNCHANGED <<pc, req>>
       ELSE /\ Start(t, "reply_message_commit",
                     [op |-> "reply_message",
                      row |-> Message(user_id, message_by_id(message_id).sender_id,
                                      message_by_id(message_id).group_id,
                                      Strip(subject), Strip(message_text))])
            /\ UNCHANGED last
    /\ UNCHANGED <<collation, today, users, groups, members, messages, next_id>>

reply_message_commit(t) ==
    /\ pc[t] = "reply_message_commit"
    /\ message_insert(t, "reply_message")

(***************************************************************************)
(* Registration and the real-time checks, from an empty store              *)
(***************************************************************************)
NoResponse == Response("none", "none", <<>>)

InitUsers ==
    /\ collation \in {"ci", "cs"}
    /\ today = Ordinal(2026, 11, 5)
    /\ users = {}
    /\ groups = {}
    /\ members = EmptyBag
    /\ messages = {}
    /\ next_id = [user |-> 1, group |-> 1]
    /\ pc = [t \in Threads |-> "idle"]
    /\ req = [t \in Threads |-> NoReq]
    /\ last = NoResponse

NextUsers ==
    \/ \E t \in Threads, form \in RegisterForms : register_submit(t, form)
    \/ \E t \in Threads : register_commit(t)
    \/ \E username \in UsernameInputs : validate_username_api(username)
    \/ \E email \in EmailInputs : validate_email_api(email)

SpecUsers == InitUsers /\ [][NextUsers]_vars

(***************************************************************************)
(* Registration, one request at a time                                     *)
(***************************************************************************)
NextRegister ==
    \/ \E t \in Threads, form \in RegisterForms : AllIdle /\ register_submit(t, form)
    \/ \E t \in Threads : register_commit(t)

SpecRegister == InitUsers /\ [][NextRegister]_vars

(***************************************************************************)
(* The groups of three registered users, requests served at the same time  *)
(***************************************************************************)
\* a form that passes every check but for the capacity it asks for
BaseForm ==
    [title |-> <<"A","l","p","s"," ","h","i","k","e">>,
     description |-> <<"W","a","l","k"," ","a","n","d"," ","t","a","l","k">>,
     destination |-> <<"B","e","r","n">>,
     interests |-> <<>>,
     start_date |-> <<"2","0","2","6","-","1","1","-","1","0">>,
     end_date |-> <<"2","0","2","7","-","1","1","-","1","0">>,
     budget_min |-> <<>>,
     budget_max |-> <<>>,
     max_members |-> <<"2">>]

CapacityForms == {[BaseForm EXCEPT !.max_members = m] : m \in {<<"1">>, <<"2">>, <<"3">>}}

RegisteredUser(id, username, email) ==
    [id |-> id, username |-> username, email |-> email,
     password_hash |-> generate_password_hash(GoodPassword),
     first_name |-> <<"A","n","n">>, last_name |-> <<"L","e","e">>]

Init ==
    /\ collation = "ci"
    /\ today = Ordinal(2026, 11, 5)
    /\ users = { RegisteredUser(1, <<"a","l","i","c","e">>, <<"a","@","x",".","c","o">>),
                 RegisteredUser(2, <<"b","o","b","b","y">>, <<"b","@","x",".","c","o">>),
                 RegisteredUser(3, <<"c","a","r","o","l">>, <<"c","@","x",".","c","o">>) }
    /\ groups = {}
    /\ members = EmptyBag
    /\ messages = {}
    /\ next_id = [user |-> 4, group |-> 1]
    /\ pc = [t \in Threads |-> "idle"]
    /\ req = [t \in Threads |-> NoReq]
    /\ last = NoResponse

Next ==
    \/ \E u \in UserIds, form \in CapacityForms : create_group(u, form)
    \/ \E t \in Threads, u \in UserIds, g \in 1..MaxGroups, form \in CapacityForms :
           edit_group_submit(t, u, g, form)
    \/ \E t \in Threads : edit_group_commit(t)
    \/ \E t \in Threads, u \in UserIds, g \in 1..MaxGroups : join_group_submit(t, u, g)
    \/ \E t \in Threads : join_group_commit(t)
    \/ \E t \in Threads, u \in UserIds, g \in 1..MaxGroups : delete_group_submit(t, u, g)
    \/ \E t \in Threads : delete_group_members(t)
    \/ \E t \in Threads : delete_group_commit(t)

Spec == Init /\ [][Next]_vars

(***************************************************************************)
(* The forms, one request at a time, from an empty store                   *)
(***************************************************************************)
\* BaseForm with one field, the two dates or the two budgets replaced
FormVariants ==
    {[BaseForm EXCEPT !.title = x] : x \in TitleInputs}
    \cup {[BaseForm EXCEPT !.destination = x] : x \in DestinationInputs}
    \cup {[BaseForm EXCEPT !.description = x] : x \in DescriptionInputs}
    \cup {[BaseForm EXCEPT !.interests = x] : x \in InterestsInputs}
    \cup {[BaseForm EXCEPT !.start_date = x, !.end_date = y] : x \in DateInputs, y \in DateInputs}
    \cup {[BaseForm EXCEPT !.budget_min = x, !.budget_max = y] :
             x \in BudgetInputs, y \in BudgetInputs}
    \cup {[BaseForm EXCEPT !.max_members = x] : x \in MaxMembersInputs}

FewRegisterForms ==
    {f \in RegisterForms :
        /\ f.username = <<"a","l","i","c","e">>
        /\ f.email \in {<<"a","@","x",".","c","o">>, <<"b","a","d">>}
        /\ f.password = GoodPassword}

\* how many midnights pass
MaxDaysPassed == 1

\* date.today() moves on
midnight ==
    /\ today < Ordinal(2026, 11, 5) + MaxDaysPassed
    /\ today' = today + 1
    /\ UNCHANGED <<collation, messages, users, groups, members, next_id, pc, req, last>>

InitForms ==
    /\ collation = "ci"
    /\ today = Ordinal(2026, 11, 5)
    /\ users = {}
    /\ groups = {}
    /\ members = EmptyBag
    /\ messages = {}
    /\ next_id = [user |-> 1, group |-> 1]
    /\ pc = [t \in Threads |-> "idle"]
    /\ req = [t \in Threads |-> NoReq]
    /\ last = NoResponse

NextForms ==
    \/ midnight
    \/ \E t \in Threads, form \in FewRegisterForms : AllIdle /\ register_submit(t, form)
    \/ \E t \in Threads : register_commit(t)
    \/ \E u \in UserIds, form \in FormVariants : AllIdle /\ create_group(u, form)
    \/ \E t \in Threads, u \in UserIds, g \in 1..MaxGroups, form \in FormVariants :
           AllIdle /\ edit_group_submit(t, u, g, form)
    \/ \E t \in Threads : edit_group_commit(t)

SpecForms == InitForms /\ [][NextForms]_vars

(***************************************************************************)
(* Forms with several fields wrong at once, one request at a time          *)
(***************************************************************************)
\* start and end date: five days apart, 400 days apart, 401 days apart with
\* the start in the past, and one or both of the two no date
FieldDates ==
    { << <<"2","0","2","6","-","1","1","-","0","5">>, <<"2","0","2","6","-","1","1","-","1","0">> >>,
      << <<"2","0","2","6","-","1","1","-","0","5">>, LongTripEnd >>,
      << <<"2","0","2","6","-","1","1","-","0","4">>, LongTripEnd >>,
      << <<"s","o","o","n">>, LongTripEnd >>,
      << <<"2","0","2","6","-","1","1","-","0","5">>, <<"s","o","o","n">> >>,
      << <<"s","o","o","n">>, <<"s","o","o","n">> >> }

FieldForms ==
    LET forms == {[BaseForm EXCEPT !.start_date = dates[1], !.end_date = dates[2],
                                   !.budget_min = budget_min, !.budget_max = budget_max,
                                   !.max_members = max_members] :
                     dates \in FieldDates,
                     budget_min \in {<<>>, <<"9","0","0">>, <<"l","o","t","s">>},
                     budget_max \in {<<"5","0","0">>, <<"l","o","t","s">>},
                     max_members \in {<<"3">>, <<"1">>, <<"t","e","n">>}}
    IN  forms \cup {[form EXCEPT !.title = <<"T","r","i","p">>] :
                       form \in {f \in forms : f.budget_min = <<"l","o","t","s">>
                                                /\ f.max_members = <<"t","e","n">>}}

NextFields ==
    \/ \E u \in UserIds, form \in FieldForms : AllIdle /\ create_group(u, form)
    \/ \E t \in Threads, u \in UserIds, g \in 1..MaxGroups, form \in FieldForms :
           AllIdle /\ edit_group_submit(t, u, g, form)
    \/ \E t \in Threads : edit_group_commit(t)
    \/ \E t \in Threads, u \in UserIds, g \in 1..MaxGroups : AllIdle /\ join_group_submit(t, u, g)
    \/ \E t \in Threads : join_group_commit(t)

SpecFields == Init /\ [][NextFields]_vars

(***************************************************************************)
(* The messages of three registered users, requests served at the same     *)
(* time                                                                    *)
(***************************************************************************)
MessageForms ==
    { <<subject, message_text>> : subject \in MessageTextInputs,
                                   message_text \in {<<>>, <<"h","i">>} }

NextMessages ==
    \/ \E u \in UserIds : AllIdle /\ create_group(u, BaseForm)
    \/ \E t \in Threads, u \in UserIds, g \in 1..MaxGroups, form \in MessageForms :
           contact_creator_submit(t, u, g, form[1], form[2])
    \/ \E t \in Threads : contact_creator_commit(t)
    \/ \E t \in Threads, u \in UserIds : messages_query(t, u)
    \/ \E t \in Threads : messages_commit(t)
    \/ \E t \in Threads, u \in UserIds, id \in 1..MaxMessages, form \in MessageForms :
           reply_message_submit(t, u, id, form[1], form[2])
    \/ \E t \in Threads : reply_message_commit(t)
    \/ \E t \in Threads, u \in UserIds, g \in 1..MaxGroups : delete_group_submit(t, u, g)
    \/ \E t \in Threads : delete_group_members(t)
    \/ \E t \in Threads : delete_group_commit(t)

SpecMessages == Init /\ [][NextMessages]_vars

(***************************************************************************)
(* The validators on their own: a call with a text, and its return         *)
(***************************************************************************)
\* how long the enumerated usernames and passwords are, and of how many
\* parts a title is put together
MaxTextLen == 4

MaxTitleParts == 3

\* every text of up to n characters of an alphabet
Texts(alphabet, n) == UNION {[1..k -> alphabet] : k \in 0..n}

\* twelve characters, to which up to two more are added
LongStem == <<"a","b","c","d","e","f","g","h","i","j","k","l">>

UsernameTexts ==
    Texts({"a", "A", "1", "_", "!", "\n"}, MaxTextLen)
    \cup {LongStem \o x : x \in Texts({"a", "_"}, 2)}
    \cup reserved_usernames
    \cup {Title(x) : x \in reserved_usernames}
    \cup { <<"a","l","i","c","e">>, <<"a","l","i","c","e","\n">>, <<"a","l","i","c","e","_">>,
           <<"a","l","_","_","c","e">>, <<"1","a","l","i","c","e">>, <<"a","b","1","2">> }

PasswordTexts ==
    Texts({"a", "A", "1", "!", "_"}, MaxTextLen) \cup {GoodPassword, WeakPassword}

TitleParts ==
    { <<>>, <<" ">>, <<"g","o">>, <<"1","2","3","4">>, <<"!","!","!","!">>,
      <<"C","A","S","H">>, <<"c","a","s","h"," ">>, <<"S","P","A","M"," ">>,
      <<"T","R","I","P"," ","T","O"," ","R","O","M","E"," ">> }

RECURSIVE TitlesOf(_)
TitlesOf(n) ==
    IF n = 0 THEN {<<>>} ELSE {x \o y : x \in TitlesOf(n - 1), y \in TitleParts}

BuyBitcoinNow ==
    <<"B","U","Y"," ","B","I","T","C","O","I","N"," ","N","O","W","!","!","!">>

RECURSIVE Repeated(_, _)
Repeated(text, n) == IF n = 0 THEN <<>> ELSE text \o Repeated(text, n - 1)

\* a title of more than 200 characters
LongTitle == Repeated(<<"c","a","s","h"," ">>, 41)

TitleTexts == TitlesOf(MaxTitleParts) \cup {BuyBitcoinNow, LongTitle}

Calls ==
    {[op |-> "validate_username", text |-> x] : x \in UsernameTexts}
    \cup {[op |-> "validate_password", text |-> x] : x \in PasswordTexts}
    \cup {[op |-> "validate_group_title", text |-> x] : x \in TitleTexts}

\* the return of a validator: its list of errors
Return(t, errors) ==
    /\ pc[t] = "call"
    /\ pc' = [pc EXCEPT ![t] = "returned"]
    /\ last' = Response(req[t].op, IF errors = <<>> THEN "valid" ELSE "invalid", errors)
    /\ UNCHANGED <<collation, messages, today, users, groups, members, next_id, req>>

call_validate_username(t) ==
    /\ req[t].op = "validate_username"
    /\ Return(t, validate_username(req[t].text))

call_validate_password(t) ==
    /\ req[t].op = "validate_password"
    /\ Return(t, validate_password(req[t].text))

call_validate_group_title(t) ==
    /\ req[t].op = "validate_group_title"
    /\ Return(t, validate_group_title(req[t].text))

InitValidators ==
    /\ collation = "ci"
    /\ today = Ordinal(2026, 11, 5)
    /\ users = {}
    /\ groups = {}
    /\ members = EmptyBag
    /\ messages = {}
    /\ next_id = [user |-> 1, group |-> 1]
    /\ pc = [t \in Threads |-> IF t = 1 THEN "call" ELSE "idle"]
    /\ \E call \in Calls : req = [t \in Threads |-> IF t = 1 THEN call ELSE NoReq]
    /\ last = NoResponse

NextValidators ==
    \/ \E t \in Threads : call_validate_username(t)
    \/ \E t \in Threads : call_validate_password(t)
    \/ \E t \in Threads : call_validate_group_title(t)

SpecValidators == InitValidators /\ [][NextValidators]_vars

(***************************************************************************)
(* The claims                                                              *)
(***************************************************************************)
StoredRecords == <<users, groups, members>>

\* C1: in every reachable state, whatever the interleaving of join_group and
\* edit_group requests, a group has no more approved members than its
\* max_members.
C1_MemberCountWithinCapacity ==
    \A g \in groups : get_member_count(g.id) <= g.max_members

\* C2: in every reachable state, also after register requests for the same
\* username served at the same time, no two stored users have the same
\* username.
C2_UsernamesUnique ==
    \A x \in users, y \in users : x.username = y.username => x = y

\* a first registration of a username is stored while a second request for
\* that username, which passed the lookup before, is about to insert
C2_Witness ==
    \E t \in Threads :
        /\ pc[t] = "register_commit"
        /\ \E x \in users : x.username = req[t].username

\* C3: with register requests served one at a time, no two stored users have
\* the same email, and a registration whose email, lower-cased as it would
\* be stored, is the email of a stored user is rejected with "Email is
\* already registered".
C3_EmailAlreadyRegistered ==
    /\ \A x \in users, y \in users : x.email = y.email => x = y
    /\ AllIdle =>
           \A form \in RegisterForms :
               (\E x \in users : x.email = Lower(register_fields(form).email))
                   => Contains(register_errors(form), "Email: Email is already registered")

\* C4: a step that answers a register, create_group or edit_group request
\* whose all_errors is not empty leaves the stored users, groups and members
\* as they were; a step that changes them answers a request whose all_errors
\* is empty.
C4_RejectedRequestWritesNothing ==
    [][ /\ (last'.op \in {"register", "create_group", "edit_group"} /\ last'.errors # <<>>)
               => UNCHANGED StoredRecords
        /\ StoredRecords' # StoredRecords
               => last'.op \in {"register", "create_group", "edit_group"}
                  /\ last'.errors = <<>> ]_vars

\* an edit of a stored group was rejected for its violations
C4_Witness ==
    /\ groups # {}
    /\ last.op = "edit_group"
    /\ last.result = "rejected"
    /\ last.errors # <<>>

UnderCapacity(count) ==
    "Cannot reduce max members below current member count (" \o ToString(count) \o ")"

\* the forms whose capacity parses as an integer below the member count of
\* the group
BelowCount(g) ==
    {form \in CapacityForms :
        max_members_of(form) # None /\ max_members_of(form)[1] < get_member_count(g.id)}

\* C5, as the code has it: an edit_group submission whose capacity parses as
\* an integer below the group's approved-member count is rejected and leaves
\* the group as it was; the violation is the under-capacity message when the
\* capacity is at least 2, and "Group must allow at least 2 members" alone
\* when it is below 2.
C5_BelowCountRejected ==
    /\ [](\A g \in groups : \A form \in BelowCount(g) :
             LET e == edit_group_errors(form, g.id)
                 n == get_member_count(g.id)
             IN  IF max_members_of(form)[1] >= 2
                 THEN Contains(e, UnderCapacity(n))
                 ELSE /\ Contains(e, "Group must allow at least 2 members")
                      /\ ~Contains(e, UnderCapacity(n)))
    /\ [][(last'.op = "edit_group" /\ last'.errors # <<>>) => UNCHANGED groups]_vars

\* an edit asking for 2 places in a group of 3 members was rejected
C5_Witness ==
    /\ \E g \in groups : get_member_count(g.id) = 3
    /\ last.op = "edit_group"
    /\ last.result = "rejected"
    /\ Contains(last.errors, UnderCapacity(3))

\* C5, as the claim has it: every edit_group submission whose capacity parses
\* as an integer below the group's approved-member count gets the
\* under-capacity message.
C5_AlwaysUnderCapacityMessage ==
    \A g \in groups : \A form \in BelowCount(g) :
        Contains(edit_group_errors(form, g.id), UnderCapacity(get_member_count(g.id)))

\* C6: for every candidate username and email and every set of stored users,
\* the real-time endpoint and the register handler agree on the field: one
\* finds it invalid iff the other does, and one reports it taken iff the
\* other does.
C6_SameVerdict ==
    \A form \in RegisterForms :
        LET api_username == validate_username_api_errors(form.username)
            api_email == validate_email_api_errors(form.email)
            form_username == register_username_errors(register_fields(form).username)
            form_email == register_email_errors(register_fields(form).email)
        IN  /\ api_username = <<>> <=> form_username = <<>>
            /\ Contains(api_username, "Username is already taken")
                   <=> Contains(form_username, "Username: Username is already taken")
            /\ api_email = <<>> <=> form_email = <<>>
            /\ Contains(api_email, "Email is already registered")
                   <=> Contains(form_email, "Email: Email is already registered")

InBudgetRange(number) == ~number.nan /\ 0 <= number.val /\ number.val <= 100000

PastStart == "Start date cannot be in the past"

\* the forms whose dates parse and whose start date is before today
PastStartForms ==
    {form \in FormVariants : dates_parse(form) /\ date_value[form.start_date].val < today}

\* C9, as the code has it: create_group and edit_group both reject a start
\* date earlier than today with "Start date cannot be in the past", and a
\* request so rejected leaves the groups as they were.
C9_PastStartRejectedByBoth ==
    /\ [](\A form \in PastStartForms :
             /\ Contains(create_group_errors(form), PastStart)
             /\ \A g \in groups : Contains(edit_group_errors(form, g.id), PastStart))
    /\ [][Contains(last'.errors, PastStart) => UNCHANGED groups]_vars

\* a group's start date has passed, and an edit was rejected for its start
\* date
C9_Witness ==
    /\ \E g \in groups : g.start_date < today
    /\ last.op = "edit_group"
    /\ last.result = "rejected"
    /\ Contains(last.errors, PastStart)

\* C9, as the claim has it: an edit_group submission whose start date is
\* earlier than today and whose other fields are valid has no violation.
C9_EditIgnoresPastStart ==
    \A g \in groups : \A form \in PastStartForms :
        LET e == edit_group_errors(form, g.id) IN
        (\A i \in 1..Len(e) : e[i] = PastStart) => e = <<>>

\* C10: in every reachable state, whatever the interleaving of join_group
\* and delete_group requests, every membership row names a stored group.
C10_MembersOfStoredGroups ==
    \A m \in BagToSet(members) : m.group_id \in GroupIds

\* a group was deleted while a request to join it, which had found the group
\* before, is about to insert its row
C10_Witness ==
    /\ last.op = "delete_group"
    /\ last.result = "ok"
    /\ \E t \in Threads : pc[t] = "join_group_commit" /\ req[t].group_id \notin GroupIds

\* C19: in every reachable state, whatever the interleaving of join_group
\* requests, no (user, group) pair has more than one membership row.
C19_OneMembershipPerPair ==
    \A m \in BagToSet(members) :
        BagCardinality(MembersAmong(existing_member(m.user_id, m.group_id))) <= 1

\* how often an error is in a list
Occurrences(errors, msg) == Cardinality({i \in 1..Len(errors) : errors[i] = msg})

UsernameTooShort == "Username must be at least 5 characters long"

UsernameTooLong == "Username must be no more than 13 characters long"

\* the username validate_username has returned on, if any
ReturnedUsernames ==
    {req[t].text : t \in {w \in Threads : pc[w] = "returned" /\ req[w].op = "validate_username"}}

\* C12, as the code has it: for a non-empty username shorter than 5
\* characters validate_username reports the too-short violation, for one
\* longer than 13 the too-long violation; for the empty username it reports
\* "Username is required" and nothing else.
C12_LengthViolations ==
    \A username \in ReturnedUsernames :
        /\ username = <<>> => last.errors = <<"Username is required">>
        /\ (username # <<>> /\ Len(username) < 5) => Contains(last.errors, UsernameTooShort)
        /\ Len(username) > 13 => Contains(last.errors, UsernameTooLong)

\* validate_username has returned on a username of 14 characters
C12_Witness ==
    /\ \E username \in ReturnedUsernames : Len(username) = 14
    /\ Contains(last.errors, UsernameTooLong)

\* C12, as the claim has it: every username shorter than 5 or longer than 13
\* characters, the empty one included, gets one of the two length violations.
C12_EveryLengthReported ==
    \A username \in ReturnedUsernames :
        (Len(username) < 5 \/ Len(username) > 13)
            => Contains(last.errors, UsernameTooShort) \/ Contains(last.errors, UsernameTooLong)

\* the four character classes of a password and the violation of each
PasswordClasses ==
    { [chars |-> LowerCh, msg |-> "Password must contain at least one lowercase letter"],
      [chars |-> UpperCh, msg |-> "Password must contain at least one uppercase letter"],
      [chars |-> DigitCh, msg |-> "Password must contain at least one number"],
      [chars |-> PasswordSpecialCh,
       msg |-> "Password must contain at least one special character"] }

ReturnedPasswords ==
    {req[t].text : t \in {w \in Threads : pc[w] = "returned" /\ req[w].op = "validate_password"}}

\* C13, as the code has it: for a non-empty password and each of the four
\* classes, validate_password reports the class's violation, once, iff the
\* password has no character of the class; for the empty password it
\* reports "Password is required" and nothing else.
C13_MissingClasses ==
    \A password \in ReturnedPasswords :
        IF password = <<>> THEN last.errors = <<"Password is required">>
        ELSE \A class \in PasswordClasses :
                 Occurrences(last.errors, class.msg)
                     = IF \E i \in 1..Len(password) : password[i] \in class.chars THEN 0 ELSE 1

\* validate_password has returned on a password without upper-case letter
\* and without digit, with both violations
C13_Witness ==
    /\ \E password \in ReturnedPasswords :
           /\ password # <<>>
           /\ \A i \in 1..Len(password) : password[i] \notin UpperCh \cup DigitCh
    /\ Contains(last.errors, "Password must contain at least one uppercase letter")
    /\ Contains(last.errors, "Password must contain at least one number")

\* C13, as the claim has it: for every password, the empty one included, the
\* violation of a class is reported iff the password has no character of it.
C13_EveryPassword ==
    \A password \in ReturnedPasswords : \A class \in PasswordClasses :
        Contains(last.errors, class.msg)
            <=> ~(\E i \in 1..Len(password) : password[i] \in class.chars)

\* C14: for every non-empty username the list validate_username returns has
\* the message of a rule iff the rule is violated: too short, too long, a
\* character that is no letter, digit or underscore, a first character that
\* is no letter, an underscore at the end, two underscores in a row, a
\* reserved word.
C14_EveryViolatedRule ==
    \A username \in ReturnedUsernames :
        username # <<>> =>
            /\ Contains(last.errors, UsernameTooShort) <=> Len(username) < 5
            /\ Contains(last.errors, UsernameTooLong) <=> Len(username) > 13
            /\ Contains(last.errors, "Username can only contain letters, numbers, and underscores")
                   <=> \E i \in 1..Len(username) :
                           username[i] \notin LetterCh \cup DigitCh \cup {"_"}
            /\ Contains(last.errors, "Username must start with a letter")
                   <=> username[1] \notin LetterCh
            /\ Contains(last.errors, "Username cannot end with an underscore")
                   <=> username[Len(username)] = "_"
            /\ Contains(last.errors, "Username cannot have consecutive underscores")
                   <=> \E i \in 1..(Len(username) - 1) : username[i] = "_" /\ username[i + 1] = "_"
            /\ Contains(last.errors, "This username is reserved and cannot be used")
                   <=> Lower(username) \in reserved_usernames

ReturnedTitles ==
    {req[t].text : t \in {w \in Threads : pc[w] = "returned" /\ req[w].op = "validate_group_title"}}

\* the blocklisted words a text holds, whatever the case
BlocklistedIn(text) == {word \in inappropriate_words : HasSub(Lower(text), word)}

TitleAllUppercase == "Group title cannot be all uppercase"

TitleInappropriate == "Group title contains inappropriate content"

\* C16: a title that, trimmed, has no lower-case letter, more than 10
\* characters and a blocklisted word in any case gets both the all-uppercase
\* and the inappropriate-content violation; "BUY BITCOIN NOW!!!" is one.
C16_UppercaseAndInappropriate ==
    /\ \A raw \in ReturnedTitles :
           LET title == Strip(raw) IN
           (/\ \A i \in 1..Len(title) : title[i] \notin LowerCh
            /\ Len(title) > 10
            /\ BlocklistedIn(title) # {})
               => /\ Contains(last.errors, TitleAllUppercase)
                  /\ Contains(last.errors, TitleInappropriate)
    /\ BuyBitcoinNow \in ReturnedTitles
           => /\ Contains(last.errors, TitleAllUppercase)
              /\ Contains(last.errors, TitleInappropriate)

\* validate_group_title has returned on "BUY BITCOIN NOW!!!" with both
\* violations
C16_Witness ==
    /\ BuyBitcoinNow \in ReturnedTitles
    /\ Contains(last.errors, TitleAllUppercase)
    /\ Contains(last.errors, TitleInappropriate)

\* C18: validate_group_title reports the inappropriate-content violation at
\* most once, and exactly once when the title holds a blocklisted word;
\* with or without it, every other violated rule (too short, too long, no
\* letter, all uppercase, more than 30% special characters) is reported.
C18_InappropriateOnceOthersKept ==
    \A raw \in ReturnedTitles :
        LET title == Strip(raw)
            specials == Cardinality({i \in 1..Len(title) : title[i] \in TitleSpecialCh})
        IN  title # <<>> =>
            /\ Occurrences(last.errors, TitleInappropriate)
                   = IF BlocklistedIn(title) # {} THEN 1 ELSE 0
            /\ Len(title) < 5
                   => Contains(last.errors, "Group title must be at least 5 characters long")
            /\ Len(title) > 200
                   => Contains(last.errors, "Group title must be no more than 200 characters long")
            /\ (\A i \in 1..Len(title) : title[i] \notin LetterCh)
                   => Contains(last.errors, "Group title must contain at least one letter")
            /\ (/\ \E i \in 1..Len(title) : title[i] \in UpperCh
                /\ \A i \in 1..Len(title) : title[i] \notin LowerCh
                /\ Len(title) > 10)
                   => Contains(last.errors, TitleAllUppercase)
            /\ 10 * specials > 3 * Len(title)
                   => Contains(last.errors, "Group title contains too many special characters")

\* validate_group_title has returned on a title with two blocklisted words
\* that also breaks the all-uppercase and the special-character rules
C18_Witness ==
    /\ \E raw \in ReturnedTitles : Cardinality(BlocklistedIn(raw)) >= 2
    /\ Occurrences(last.errors, TitleInappropriate) = 1
    /\ Contains(last.errors, TitleAllUppercase)
    /\ Contains(last.errors, "Group title contains too many special characters")

TooLongTrip == "Trip duration cannot exceed 365 days"

\* the forms whose dates are more than 365 days apart
LongTripForms ==
    {form \in FieldForms :
        /\ dates_parse(form)
        /\ date_value[form.end_date].val - date_value[form.start_date].val > 365}

\* C15: a create_group submission whose end date is more than 365 days
\* after its start date, whatever its other fields are, has the violation
\* "Trip duration cannot exceed 365 days", and a create_group that reports
\* this violation is rejected and leaves the groups as they were.
C15_LongTripRejected ==
    /\ [](\A form \in LongTripForms : Contains(create_group_errors(form), TooLongTrip))
    /\ [][(last'.op = "create_group" /\ Contains(last'.errors, TooLongTrip))
              => (last'.result = "rejected" /\ UNCHANGED groups)]_vars

\* a create_group with dates 401 days apart, a start date in the past and a
\* capacity that is no integer was rejected with the violation of each
C15_Witness ==
    /\ last.op = "create_group"
    /\ last.result = "rejected"
    /\ Contains(last.errors, TooLongTrip)
    /\ Contains(last.errors, "Start date cannot be in the past")
    /\ Contains(last.errors, "Invalid maximum members value")
    /\ groups = {}

NoDate == <<"s","o","o","n">>

NoNumber == <<"l","o","t","s">>

NoInteger == <<"t","e","n">>

\* a list of errors has, for each field of the form that does not parse,
\* the parse violation once and none of the violations that need its value
ParseFailuresAlone(form, errors) ==
    /\ NoDate \in {form.start_date, form.end_date}
           => /\ Occurrences(errors, "Invalid date format") = 1
              /\ ~Contains(errors, "Start date cannot be in the past")
              /\ ~Contains(errors, "End date must be after start date")
              /\ ~Contains(errors, TooLongTrip)
    /\ form.budget_min = NoNumber
           => /\ Occurrences(errors, "Invalid minimum budget format") = 1
              /\ ~Contains(errors, "Minimum budget cannot be negative")
              /\ ~Contains(errors, "Minimum budget seems unreasonably high")
              /\ ~Contains(errors, "Maximum budget must be greater than minimum budget")
    /\ form.budget_max = NoNumber
           => /\ Occurrences(errors, "Invalid maximum budget format") = 1
              /\ ~Contains(errors, "Maximum budget cannot be negative")
              /\ ~Contains(errors, "Maximum budget seems unreasonably high")
              /\ ~Contains(errors, "Maximum budget must be greater than minimum budget")
    /\ form.max_members = NoInteger
           => /\ Occurrences(errors, "Invalid maximum members value") = 1
              /\ ~Contains(errors, "Group must allow at least 2 members")
              /\ ~Contains(errors, "Group cannot have more than 50 members")
              /\ \A count \in 0..MaxMemberRows : ~Contains(errors, UnderCapacity(count))

\* C17: in create_group and in edit_group a date, budget or capacity that
\* does not parse adds its parse violation exactly once and none of the
\* violations that depend on the field's value: no max-vs-min violation for
\* a minimum budget that is no number, no past-date, end-before-start or
\* 365-day violation for a date that is no date, no range or under-capacity
\* violation for a capacity that is no integer.
C17_ParseFailuresAlone ==
    \A form \in FieldForms :
        /\ ParseFailuresAlone(form, create_group_errors(form))
        /\ \A g \in groups : ParseFailuresAlone(form, edit_group_errors(form, g.id))

\* an edit of a group with two members was rejected for a minimum budget
\* that is no number and a capacity that is no integer
C17_Witness ==
    /\ \E g \in groups : get_member_count(g.id) >= 2
    /\ last.op = "edit_group"
    /\ last.result = "rejected"
    /\ Contains(last.errors, "Invalid minimum budget format")
    /\ Contains(last.errors, "Invalid maximum members value")
    /\ ~Contains(last.errors, "Maximum budget must be greater than minimum budget")

\* the is_read flag of the message with this id among the rows
IsRead(rows, id) == (CHOOSE m \in rows : m.id = id).is_read

\* C11: in every step, a message that is new is unread; a flag that changes
\* goes from unread to read, in the step that ends a view of the inbox
\* (messages) and on a message addressed to the viewer; and the step that
\* ends a view leaves every message read that was addressed to the viewer
\* when the view queried the store.
C11_ReadOnlyByRecipientsView ==
    [][ LET new == {m.id : m \in messages'} \ MessageIds
            changed == {id \in MessageIds : IsRead(messages, id) # IsRead(messages', id)}
            viewed(t) == pc[t] = "messages_commit" /\ pc'[t] = "idle"
        IN  /\ MessageIds \subseteq {m.id : m \in messages'}
            /\ \A id \in new : ~IsRead(messages', id)
            /\ \A id \in changed : ~IsRead(messages, id) /\ IsRead(messages', id)
            /\ changed # {}
                   => \E t \in Threads :
                          /\ viewed(t)
                          /\ \A id \in changed : message_by_id(id).recipient_id = req[t].user_id
            /\ \A t \in Threads :
                   viewed(t) => \A id \in req[t].received : IsRead(messages', id) ]_vars

\* a user has viewed the inbox: a message to that user is read while a
\* message to another user is still unread
C11_Witness ==
    /\ last.op = "messages"
    /\ \E m \in messages, other \in messages :
           /\ m.is_read
           /\ ~other.is_read
           /\ other.recipient_id # m.recipient_id

\* C20: in every reachable state, whatever the interleaving of
\* contact_creator, reply_message, messages and delete_group requests, no
\* stored message has its sender as its recipient.
C20_NoMessageToSelf ==
    \A m \in messages : m.sender_id # m.recipient_id

\* a reply is stored: from the recipient of a stored message to its sender
C20_Witness ==
    /\ last.op = "reply_message"
    /\ last.result = "ok"
    /\ \E m \in messages, reply \in messages :
           /\ reply.id > m.id
           /\ reply.sender_id = m.recipient_id
           /\ reply.recipient_id = m.sender_id

\* a thread ends an edit_group or delete_group request of this user
CommitsFor(user_id) ==
    \E t \in Threads :
        /\ pc[t] \in {"edit_group_commit", "delete_group_commit"}
        /\ pc'[t] = "idle"
        /\ req[t].user_id = user_id

\* C21: a step that answers an edit_group or delete_group request of a user
\* who is not the group's creator leaves the groups and the memberships as
\* they were; and a step that changes or removes a group's row, or removes a
\* membership of a group, ends an edit_group or delete_group request of the
\* user whose id is the group's creator_id.
C21_OnlyCreatorChanges ==
    [][ /\ (last'.op \in {"edit_group", "delete_group"} /\ last'.result = "forbidden")
               => UNCHANGED <<groups, members>>
        /\ \A g \in groups : g \notin groups' => CommitsFor(g.creator_id)
        /\ \A m \in BagToSet(members) :
               CopiesIn(m, members') < CopiesIn(m, members)
                   => /\ m.group_id \in GroupIds
                      /\ CommitsFor(group_by_id(m.group_id).creator_id) ]_vars

\* a user who is not the creator of a group with a member was refused its
\* deletion
C21_Witness ==
    /\ last.op = "delete_group"
    /\ last.result = "forbidden"
    /\ \E g \in groups : \E m \in BagToSet(members) : m.group_id = g.id

=============================================================================
